---- MODULE Spec2Model ----
\* A model of src/Main.py: the CSV/JSON converters, TextNormalizer and
\* FileConverter.convert.
\*
\* Text is a sequence of characters; a character is a one-element token such
\* as "A" or "Eacute" (U+00C9).  A Python value is a record [t, s, items]:
\* t is its type, s the characters of a str (or the digits of a number), items
\* the elements of a list.  A dict is the sequence of its entries [k, v] in
\* insertion order, with pairwise different keys.
EXTENDS Integers, Sequences, FiniteSets, TLC

VARIABLES
    fs,           \* the file system: files (path -> content, or NoFile) and dirs
    before,       \* the file system when convert was called
    inputPath,    \* convert's arguments
    outputPath,
    pc,           \* the line convert has reached
    data,         \* inputConverter.data
    cleanedData,  \* convert's local cleanedData
    outData,      \* outputConverter.data
    result,       \* what convert returned or raised
    calls         \* the converter and normalizer methods called so far

vars == <<fs, before, inputPath, outputPath, pc, data, cleanedData,
          outData, result, calls>>

\* ---------------------------------------------------------------- bounds
MaxLen == 2        \* characters of a generated text
MaxEntries == 3    \* key/value entries of a generated dataset, all records together
MaxRecords == 2    \* records of a generated dataset
MaxCells == 4      \* cells of a generated CSV file, all rows together
MaxRows == 3       \* rows of a generated CSV file, the header included

\* ---------------------------------------------------------------- values
Str(s) == [t |-> "str", s |-> s, items |-> <<>>]
None == [t |-> "null", s |-> <<>>, items |-> <<>>]
Number == [t |-> "num", s |-> <<"0">>, items |-> <<>>]
PyTrue == [t |-> "bool", s |-> <<"T", "r", "u", "e">>, items |-> <<>>]
List(xs) == [t |-> "list", s |-> <<>>, items |-> xs]
isinstance_str(x) == x.t = "str"

\* ------------------------------------------------------------ characters
AsciiUpper == {"A", "E", "T", "X"}
AsciiLower == {"a", "e", "l", "n", "r", "t", "u", "x"}
AsciiDigit == {"0", "1"}

\* unicodedata.normalize('NFD', c) of one character
Decompose(c) ==
    CASE c = "Eacute" -> <<"E", "acute">>
      [] c = "eacute" -> <<"e", "acute">>
      [] OTHER -> <<c>>

\* unicodedata.category(c)
category(c) ==
    CASE c = "acute" -> "Mn"
      [] c \in AsciiUpper \cup {"Eacute"} -> "Lu"
      [] c \in AsciiLower \cup {"eacute"} -> "Ll"
      [] c \in AsciiDigit -> "Nd"
      [] c = " " -> "Zs"
      [] c = "_" -> "Pc"
      [] OTHER -> "Po"

\* str.lower() of one character
LowerChar(c) ==
    CASE c = "A" -> "a"
      [] c = "E" -> "e"
      [] c = "T" -> "t"
      [] c = "X" -> "x"
      [] c = "Eacute" -> "eacute"
      [] OTHER -> c

isspace(c) == c = " "

RECURSIVE NFD(_)
NFD(s) == IF s = <<>> THEN <<>> ELSE Decompose(Head(s)) \o NFD(Tail(s))

lower(s) == [i \in 1..Len(s) |-> LowerChar(s[i])]

RECURSIVE lstrip(_)
lstrip(s) == IF s # <<>> /\ isspace(Head(s)) THEN lstrip(Tail(s)) ELSE s

RECURSIVE rstrip(_)
rstrip(s) ==
    IF s # <<>> /\ isspace(s[Len(s)]) THEN rstrip(SubSeq(s, 1, Len(s) - 1)) ELSE s

strip(s) == rstrip(lstrip(s))

\* a pattern that forgets the blank: [^a-zA-Z0-9_ ]
SubNonWordBroken(s) ==
    [i \in 1..Len(s) |->
        IF s[i] \in AsciiLower \cup AsciiUpper \cup AsciiDigit \cup {"_", " "}
        THEN s[i] ELSE "_"]

\* re.sub(r'[^a-zA-Z0-9_]', '_', s)
re_sub_nonword(s) ==
    [i \in 1..Len(s) |->
        IF s[i] \in AsciiLower \cup AsciiUpper \cup AsciiDigit \cup {"_"}
        THEN s[i] ELSE "_"]

\* -------------------------------------------------------- TextNormalizer
removeAccents(text) ==
    IF ~isinstance_str(text) THEN text
    ELSE Str(SelectSeq(NFD(text.s), LAMBDA c : category(c) # "Mn"))

normalizeText(text) ==
    IF ~isinstance_str(text) THEN text
    ELSE Str(strip(lower(removeAccents(text).s)))

normalizeKey(key) ==
    IF ~isinstance_str(key) THEN key
    ELSE Str(lower(re_sub_nonword(removeAccents(key).s)))

Sentinel == Str(<<"n", "/", "a">>)

\* a list of pairs in place of a dict: a repeated key is added again
DictSetAppend(d, k, v) == Append(d, [k |-> k, v |-> v])

\* d[k] = v on a dict: an existing key keeps its place and takes the new value

DictSet(d, k, v) ==
    IF \E i \in 1..Len(d) : d[i].k = k
    THEN [i \in 1..Len(d) |-> IF d[i].k = k THEN [k |-> k, v |-> v] ELSE d[i]]
    ELSE Append(d, [k |-> k, v |-> v])

\* the sentinel substituted before the text is normalized
CleanValueSentinelFirst(value) ==
    IF value = None \/ value = Str(<<>>) THEN Sentinel
    ELSE IF isinstance_str(value) THEN normalizeText(value) ELSE value

\* the sentinel substituted for the empty string only
CleanValueKeepNull(value) ==
    LET cleanedValue == IF isinstance_str(value) THEN normalizeText(value) ELSE value
    IN  IF cleanedValue = Str(<<>>) THEN Sentinel ELSE cleanedValue

\* the body of cleanData's inner loop for one value (lines 140-146)
cleanValue(value) ==
    LET cleanedValue == IF isinstance_str(value) THEN normalizeText(value) ELSE value
    IN  IF cleanedValue = None \/ cleanedValue = Str(<<>>) THEN Sentinel
        ELSE cleanedValue

\* cleanData's inner loop over item.items(), filling cleanedItem
RECURSIVE cleanItem(_, _)
cleanItem(item, cleanedItem) ==
    IF item = <<>> THEN cleanedItem
    ELSE cleanItem(Tail(item),
                   DictSet(cleanedItem, normalizeKey(Head(item).k),
                           cleanValue(Head(item).v)))

\* what a call does: it returns a value or raises
Return(v) == [raised |-> "none", value |-> v]
Raise(e) == [raised |-> e, value |-> <<>>]

\* What json.load returns: a list whose elements are all objects (recs), a list
\* holding an element that is no object, a top-level object (recs holds it),
\* or a number.  What CSVConverter.readData returns is a list of dicts.
JsonArray(d) == [shape |-> "array", recs |-> d]
JsonScalars == [shape |-> "scalars", recs |-> <<>>]
JsonObject(o) == [shape |-> "object", recs |-> <<o>>]
JsonNumber == [shape |-> "number", recs |-> <<>>]

\* cleanData (lines 132-152): "for item in data" raises TypeError on a number
\* and walks the keys of a top-level object; item.items() raises
\* AttributeError on an item that is no dict.
cleanData(d) ==
    CASE d.shape = "number" -> Raise("TypeError")
      [] d.shape = "scalars" -> Raise("AttributeError")
      [] d.shape = "object" ->
            IF d.recs[1] = <<>> THEN Return(<<>>) ELSE Raise("AttributeError")
      [] OTHER -> Return([i \in 1..Len(d.recs) |-> cleanItem(d.recs[i], <<>>)])

\* ----------------------------------------------------------- file system
\* The paths convert is called with, and os.path.dirname and
\* os.path.splitext(path)[1] of each.  A file's content is what the csv module
\* makes of it (rows; bad when the parser raises after those rows) or what
\* json.load makes of it (doc).
InputPaths == {"in.csv", "in.json", "in.xml"}
OutputPaths == {"out.csv", "out.JSON", "out.xml", "new/out.json"}
dirname(path) == IF path = "new/out.json" THEN "new" ELSE ""
splitext(path) ==
    CASE path \in {"in.csv", "out.csv"} -> ".csv"
      [] path \in {"in.json", "new/out.json"} -> ".json"
      [] path = "out.JSON" -> ".JSON"
      [] OTHER -> ".xml"
NoDoc == [shape |-> "none", recs |-> <<>>]
NoFile == [fmt |-> "absent", rows |-> <<>>, bad |-> FALSE, doc |-> NoDoc]
CsvFile(rows, bad) == [fmt |-> "csv", rows |-> rows, bad |-> bad, doc |-> NoDoc]
JsonFile(doc) == [fmt |-> "json", rows |-> <<>>, bad |-> FALSE, doc |-> doc]
\* bytes neither parser accepts
BadFile == [fmt |-> "bad", rows |-> <<>>, bad |-> TRUE, doc |-> NoDoc]
\* whatever the destination held before the call
OldFile == [fmt |-> "old", rows |-> <<>>, bad |-> TRUE, doc |-> NoDoc]

exists(fsys, path) == fsys.files[path] # NoFile

\* os.makedirs(directory, exist_ok=True) when the directory is missing
\* (lines 57-59 and 86-88)
makedirs(fsys, path) ==
    IF dirname(path) # "" /\ dirname(path) \notin fsys.dirs
    THEN [fsys EXCEPT !.dirs = @ \cup {dirname(path)}]
    ELSE fsys

\* open(outputPath, 'w') followed by the writes: the file holds `content`
WriteFile(fsys, path, content) == [fsys EXCEPT !.files[path] = content]

\* ------------------------------------------------------------ converters
\* DataConverter.__init__ (lines 20-24)
DataConverter_init(fsys, filePath) ==
    IF ~exists(fsys, filePath) THEN Raise("FileNotFoundError") ELSE Return(<<>>)

\* csv.DictReader's row -> dict (restkey and restval are None)
RECURSIVE zipDict(_, _, _)
zipDict(fieldnames, row, d) ==
    IF fieldnames = <<>> \/ row = <<>> THEN d
    ELSE zipDict(Tail(fieldnames), Tail(row),
                 DictSet(d, Str(Head(fieldnames)), Str(Head(row))))

RECURSIVE fillRest(_, _)
fillRest(keys, d) ==
    IF keys = <<>> THEN d
    ELSE fillRest(Tail(keys), DictSet(d, Str(Head(keys)), None))

DictReaderRow(fieldnames, row) ==
    LET d == zipDict(fieldnames, row, <<>>)
        lf == Len(fieldnames)
        lr == Len(row)
    IN  IF lf < lr THEN DictSet(d, None, List(SubSeq(row, lf + 1, lr)))
        ELSE IF lf > lr THEN fillRest(SubSeq(fieldnames, lr + 1, lf), d)
        ELSE d

\* a reader that makes a record of a blank row too
RECURSIVE DictReaderRowsKeepBlank(_, _)
DictReaderRowsKeepBlank(fieldnames, rows) ==
    IF rows = <<>> THEN <<>>
    ELSE <<DictReaderRow(fieldnames, Head(rows))>>
         \o DictReaderRowsKeepBlank(fieldnames, Tail(rows))

\* [row for row in reader]: the rows after the header, the blank ones skipped
RECURSIVE DictReaderRows(_, _)
DictReaderRows(fieldnames, rows) ==
    IF rows = <<>> THEN <<>>
    ELSE IF Head(rows) = <<>> THEN DictReaderRows(fieldnames, Tail(rows))
    ELSE <<DictReaderRow(fieldnames, Head(rows))>>
         \o DictReaderRows(fieldnames, Tail(rows))

\* CSVConverter.readData (lines 46-50)
CSVConverter_readData(content) ==
    IF content.fmt # "csv" \/ content.bad THEN Raise("ParseError")
    ELSE IF content.rows = <<>> THEN Return(JsonArray(<<>>))
    ELSE Return(JsonArray(DictReaderRows(Head(content.rows), Tail(content.rows))))

\* CSVConverter.validateFormat (lines 67-73): next(reader, None) is not None,
\* and False on any exception
CSVConverter_validateFormat(content) ==
    content.fmt = "csv" /\ content.rows # <<>>

\* JSONConverter.readData (lines 79-82)
JSONConverter_readData(content) ==
    IF content.fmt # "json" THEN Raise("ParseError") ELSE Return(content.doc)

\* a validateFormat that does not parse the file
ValidateAlwaysTrue(content) == TRUE

\* JSONConverter.validateFormat (lines 94-100)
JSONConverter_validateFormat(content) == content.fmt = "json"

\* str(x) as csv.writer writes a cell: None is the empty cell
repr_str(s) == <<"'">> \o s \o <<"'">>

RECURSIVE repr_items(_)
repr_items(xs) ==
    IF xs = <<>> THEN <<>>
    ELSE IF Len(xs) = 1 THEN repr_str(xs[1])
    ELSE repr_str(xs[1]) \o <<",", " ">> \o repr_items(Tail(xs))

CsvCell(x) ==
    CASE x.t = "null" -> <<>>
      [] x.t = "list" -> <<"[">> \o repr_items(x.items) \o <<"]">>
      [] OTHER -> x.s

keys(d) == [i \in 1..Len(d) |-> d[i].k]
HasKey(d, k) == \E i \in 1..Len(d) : d[i].k = k
Get(d, k) == d[CHOOSE i \in 1..Len(d) : d[i].k = k].v

\* extrasaction='ignore'
ExtraKeysIgnored(fieldnames, rowdict) == FALSE

\* DictWriter._dict_to_list: extrasaction is 'raise', restval is ''
ExtraKeys(fieldnames, rowdict) ==
    \E i \in 1..Len(rowdict) : \A j \in 1..Len(fieldnames) : fieldnames[j] # rowdict[i].k

DictToList(fieldnames, rowdict) ==
    [j \in 1..Len(fieldnames) |->
        IF HasKey(rowdict, fieldnames[j]) THEN CsvCell(Get(rowdict, fieldnames[j]))
        ELSE <<>>]

\* writer.writerows(self.data): the rows before the first one that raises
RECURSIVE WrittenRows(_, _)
WrittenRows(fieldnames, rowdicts) ==
    IF rowdicts = <<>> \/ ExtraKeys(fieldnames, Head(rowdicts)) THEN <<>>
    ELSE <<DictToList(fieldnames, Head(rowdicts))>>
         \o WrittenRows(fieldnames, Tail(rowdicts))

\* CSVConverter.writeData past its first test (lines 56-65): [raised, value, fs].
\* open() truncates the file before self.data[0] is read.
CsvWriteRows(fsys, selfData, outputPath_) ==
    LET fs1 == makedirs(fsys, outputPath_)
    IN  IF selfData = <<>>
        THEN [raised |-> "IndexError", value |-> FALSE,
              fs |-> WriteFile(fs1, outputPath_, CsvFile(<<>>, FALSE))]
        ELSE
            LET fieldnames == keys(selfData[1])
                header == [j \in 1..Len(fieldnames) |-> CsvCell(fieldnames[j])]
                rows == WrittenRows(fieldnames, selfData)
                fs2 == WriteFile(fs1, outputPath_, CsvFile(<<header>> \o rows, FALSE))
            IN  IF Len(rows) < Len(selfData)
                THEN [raised |-> "ValueError", value |-> FALSE, fs |-> fs2]
                ELSE [raised |-> "none", value |-> TRUE, fs |-> fs2]

\* writeData without "if not self.data: return False"
CsvWriteNoEmptyCheck(fsys, selfData, outputPath_) ==
    CsvWriteRows(fsys, selfData, outputPath_)

\* CSVConverter.writeData (lines 52-65)
CSVConverter_writeData(fsys, selfData, outputPath_) ==
    IF selfData = <<>> THEN [raised |-> "none", value |-> FALSE, fs |-> fsys]
    ELSE CsvWriteRows(fsys, selfData, outputPath_)

\* json.dump of one dict, as json.load reads it back: the key None is written
\* as "null"
RECURSIVE JsonDumpItem(_, _)
JsonDumpItem(item, written) ==
    IF item = <<>> THEN written
    ELSE JsonDumpItem(Tail(item),
            DictSet(written,
                    IF Head(item).k = None THEN Str(<<"n", "u", "l", "l">>)
                    ELSE Head(item).k,
                    Head(item).v))

\* JSONConverter.writeData (lines 84-92).  [raised, value, fs]
JSONConverter_writeData(fsys, selfData, outputPath_) ==
    LET fs1 == makedirs(fsys, outputPath_)
        doc == JsonArray([i \in 1..Len(selfData) |-> JsonDumpItem(selfData[i], <<>>)])
    IN  [raised |-> "none", value |-> TRUE,
         fs |-> WriteFile(fs1, outputPath_, JsonFile(doc))]

\* ext = os.path.splitext(filePath)[1].lower()
ExtLower(ext) ==
    CASE ext = ".CSV" -> ".csv"
      [] ext = ".JSON" -> ".json"
      [] OTHER -> ext

\* a getConverter that falls back on JSON for an unknown extension
GetConverterJsonDefault(fsys, filePath) ==
    IF ~exists(fsys, filePath) THEN Raise("FileNotFoundError")
    ELSE IF ExtLower(splitext(filePath)) = ".csv" THEN Return(".csv")
    ELSE Return(".json")

\* FileConverter.getConverter (lines 159-166): the converter's class, or what
\* the call raises
getConverter(fsys, filePath) ==
    LET ext == ExtLower(splitext(filePath))
    IN  IF ext \notin {".csv", ".json"} THEN Raise("UnsupportedFormat")
        ELSE IF DataConverter_init(fsys, filePath).raised # "none"
        THEN Raise("FileNotFoundError")
        ELSE Return(ext)

\* --------------------------------------------------- FileConverter.convert
Class(path) == ExtLower(splitext(path))

Finish(r) == /\ result' = r
             /\ pc' = "done"

\* lines 170-171
CheckInput ==
    /\ pc = "start"
    /\ IF ~exists(fs, inputPath)
       THEN Finish("FileNotFoundError")
       ELSE pc' = "getInput" /\ UNCHANGED result
    /\ UNCHANGED <<fs, before, inputPath, outputPath, data, cleanedData, outData, calls>>

\* line 173
GetInputConverter ==
    /\ pc = "getInput"
    /\ LET c == getConverter(fs, inputPath)
       IN  IF c.raised # "none" THEN Finish(c.raised)
           ELSE pc' = "validate" /\ UNCHANGED result
    /\ UNCHANGED <<fs, before, inputPath, outputPath, data, cleanedData, outData, calls>>

\* lines 174-175
Validate ==
    /\ pc = "validate"
    /\ calls' = Append(calls, "validateFormat")
    /\ LET content == fs.files[inputPath]
           ok == IF Class(inputPath) = ".csv" THEN CSVConverter_validateFormat(content)
                 ELSE JSONConverter_validateFormat(content)
       IN  IF ~ok THEN Finish("InvalidFormat")
           ELSE pc' = "read" /\ UNCHANGED result
    /\ UNCHANGED <<fs, before, inputPath, outputPath, data, cleanedData, outData>>

\* line 177
Read ==
    /\ pc = "read"
    /\ calls' = Append(calls, "readData")
    /\ LET content == fs.files[inputPath]
           r == IF Class(inputPath) = ".csv" THEN CSVConverter_readData(content)
                ELSE JSONConverter_readData(content)
       IN  IF r.raised # "none" THEN Finish(r.raised) /\ UNCHANGED data
           ELSE data' = r.value /\ pc' = "clean" /\ UNCHANGED result
    /\ UNCHANGED <<fs, before, inputPath, outputPath, cleanedData, outData>>

\* line 178
Clean ==
    /\ pc = "clean"
    /\ calls' = Append(calls, "cleanData")
    /\ LET r == cleanData(data)
       IN  IF r.raised # "none" THEN Finish(r.raised) /\ UNCHANGED cleanedData
           ELSE cleanedData' = r.value /\ pc' = "getOutput" /\ UNCHANGED result
    /\ UNCHANGED <<fs, before, inputPath, outputPath, data, outData>>

\* lines 180-181
GetOutputConverter ==
    /\ pc = "getOutput"
    /\ LET c == getConverter(fs, outputPath)
       IN  IF c.raised # "none" THEN Finish(c.raised) /\ UNCHANGED outData
           ELSE outData' = cleanedData /\ pc' = "write" /\ UNCHANGED result
    /\ UNCHANGED <<fs, before, inputPath, outputPath, data, cleanedData, calls>>

\* line 182
Write ==
    /\ pc = "write"
    /\ calls' = Append(calls, "writeData")
    /\ LET w == IF Class(outputPath) = ".csv"
                THEN CSVConverter_writeData(fs, outData, outputPath)
                ELSE JSONConverter_writeData(fs, outData, outputPath)
       IN  /\ fs' = w.fs
           /\ Finish(IF w.raised # "none" THEN w.raised
                     ELSE IF w.value THEN "True" ELSE "False")
    /\ UNCHANGED <<before, inputPath, outputPath, data, cleanedData, outData>>

Next ==
    \/ CheckInput
    \/ GetInputConverter
    \/ Validate
    \/ Read
    \/ Clean
    \/ GetOutputConverter
    \/ Write

\* ---------------------------------------------------------------- inputs
SeqsUpTo(S, n) == UNION {[1..m -> S] : m \in 0..n}

\* A list of lists is generated as its shape (the lengths of its elements)
\* and the sequence of all their members.
RECURSIVE Sum(_)
Sum(sh) == IF sh = <<>> THEN 0 ELSE Head(sh) + Sum(Tail(sh))

Shapes(maxLists, budget) == {sh \in SeqsUpTo(0..budget, maxLists) : Sum(sh) <= budget}

RECURSIVE Split(_, _)
Split(flat, sh) ==
    IF sh = <<>> THEN <<>>
    ELSE <<SubSeq(flat, 1, Head(sh))>>
         \o Split(SubSeq(flat, Head(sh) + 1, Len(flat)), Tail(sh))

\* a dict holds a key once
IsDict(d) == \A i, j \in 1..Len(d) : i < j => d[i].k # d[j].k
IsDataset(ds) == \A i \in 1..Len(ds) : IsDict(ds[i])

CellSamples == {<<>>, <<"A">>}
KeySamples == {Str(<<"A">>), Str(<<"a">>), Str(<<" ">>)}
ValueSamples == {Str(<<"X">>), None}

\* files the csv module stops on: undecodable from the start, or after the header
CsvBroken == {CsvFile(<<>>, TRUE), CsvFile(<< <<<<"A">>>> >>, TRUE)}

\* documents that are no list of objects, and a file json.load rejects
JsonOdd ==
    {JsonFile(JsonScalars), JsonFile(JsonNumber), JsonFile(JsonObject(<<>>)),
     JsonFile(JsonObject(<<[k |-> Str(<<"A">>), v |-> Number]>>)), BadFile}

\* convert(ip, op) is called with `content` at ip and `old` at op
Start(ip, op, content, old, ds) ==
    /\ inputPath = ip
    /\ outputPath = op
    /\ fs = [files |-> [p \in {ip, op} |-> IF p = ip THEN content ELSE old],
             dirs |-> ds]
    /\ before = fs
    /\ pc = "start"
    /\ data = NoDoc
    /\ cleanedData = <<>>
    /\ outData = <<>>
    /\ result = "running"
    /\ calls = <<>>

Init ==
    \E ip \in InputPaths, op \in OutputPaths :
    \E old \in {NoFile, OldFile},
       ds \in {{""}, {"", dirname(op)}} :
        /\ old # NoFile => dirname(op) \in ds
        /\ \/ Start(ip, op, NoFile, old, ds)
           \/ /\ Class(ip) = ".csv"
              /\ \/ \E sh \in Shapes(MaxRows, MaxCells) :
                       \E flat \in [1..Sum(sh) -> CellSamples] :
                           Start(ip, op, CsvFile(Split(flat, sh), FALSE), old, ds)
                 \/ \E c \in CsvBroken : Start(ip, op, c, old, ds)
           \/ /\ Class(ip) = ".json"
              /\ \/ \E sh \in Shapes(MaxRecords, MaxEntries) :
                       \E flat \in [1..Sum(sh) -> [k : KeySamples, v : ValueSamples]] :
                           /\ IsDataset(Split(flat, sh))
                           /\ Start(ip, op, JsonFile(JsonArray(Split(flat, sh))), old, ds)
                 \/ \E c \in JsonOdd : Start(ip, op, c, old, ds)
           \/ /\ Class(ip) \notin {".csv", ".json"}
              /\ Start(ip, op, OldFile, old, ds)

Spec == Init /\ [][Next]_vars

\* ------------------------------------------- TextNormalizer.cleanData alone
\* The datasets cleanData is applied to: one entry with a generated key and a
\* generated value; several records over sample keys and values; and what
\* CSVConverter.readData returns.  No file is involved.
InputChars == {"A", "Eacute", "acute", " ", "/", "1", "_"}
NestedList == List(<< <<"X">>, <<>> >>)
CleanKeys == {Str(<<"A">>), Str(<<"a">>), Str(<<" ">>)}
CleanValues == {Str(<<"X">>), None, Number, NestedList}

StartClean(d) ==
    /\ data = d
    /\ pc = "clean"
    /\ inputPath = "in.json"
    /\ outputPath = "out.JSON"
    /\ fs = [files |-> <<>>, dirs |-> {""}]
    /\ before = fs
    /\ cleanedData = <<>>
    /\ outData = <<>>
    /\ result = "running"
    /\ calls = <<"validateFormat", "readData">>

InitClean ==
    \/ \E kt \in SeqsUpTo(InputChars, MaxLen) :
          \/ \E vt \in SeqsUpTo(InputChars, MaxLen) :
                StartClean(JsonArray(<< <<[k |-> Str(kt), v |-> Str(vt)]>> >>))
          \/ \E val \in {None, Number, PyTrue, NestedList} :
                StartClean(JsonArray(<< <<[k |-> Str(kt), v |-> val]>> >>))
    \/ \E sh \in Shapes(MaxRecords, MaxEntries) :
          \E flat \in [1..Sum(sh) -> [k : CleanKeys, v : CleanValues]] :
              /\ IsDataset(Split(flat, sh))
              /\ StartClean(JsonArray(Split(flat, sh)))
    \/ \E sh \in Shapes(MaxRows, MaxCells) :
          \E flat \in [1..Sum(sh) -> CellSamples] :
              StartClean(CSVConverter_readData(CsvFile(Split(flat, sh), FALSE)).value)

SpecClean == InitClean /\ [][Clean]_vars

\* ================================================================ claims
Called(m) == \E i \in 1..Len(calls) : calls[i] = m
InputExists == exists(before, inputPath)
Supported(path) == Class(path) \in {".csv", ".json"}
KeySet(d) == {d[i].k : i \in 1..Len(d)}
WordLower == AsciiLower \cup AsciiDigit \cup {"_"}
AllPipeline == <<"validateFormat", "readData", "cleanData", "writeData">>

\* what the input file is to the converter chosen for it
InputContent == before.files[inputPath]
InvalidInput ==
    IF Class(inputPath) = ".csv"
    THEN InputContent.fmt # "csv" \/ InputContent.rows = <<>>
    ELSE InputContent.fmt # "json"
UnreadableInput == InputContent.bad
UncleanableInput ==
    \/ InputContent.doc.shape \in {"number", "scalars"}
    \/ InputContent.doc.shape = "object" /\ InputContent.doc.recs[1] # <<>>

\* the original fields of a record that share the normalized key nk
NormKeys(item) == {normalizeKey(item[j].k) : j \in 1..Len(item)}
FirstOf(item, nk) ==
    CHOOSE j \in 1..Len(item) :
        /\ normalizeKey(item[j].k) = nk
        /\ \A h \in 1..(j - 1) : normalizeKey(item[h].k) # nk
LastOf(item, nk) ==
    CHOOSE j \in 1..Len(item) :
        /\ normalizeKey(item[j].k) = nk
        /\ \A h \in (j + 1)..Len(item) : normalizeKey(item[h].k) # nk

\* ---- C1
\* C1 as stated: after cleanData every key of every record is a non-empty
\* string over [a-z0-9_] and no value is None or the empty string.
C1_Original ==
    pc = "getOutput" =>
        \A i \in 1..Len(cleanedData) : \A j \in 1..Len(cleanedData[i]) :
            LET e == cleanedData[i][j]
            IN  /\ isinstance_str(e.k)
                /\ e.k.s # <<>>
                /\ \A n \in 1..Len(e.k.s) : e.k.s[n] \in WordLower
                /\ e.v # None
                /\ e.v # Str(<<>>)

\* C1 amended: after cleanData every key of every record is either None with
\* a list under it (the surplus cells of a CSV row) or a string, possibly
\* empty, over [a-z0-9_]; and no value is None or the empty string.
C1_CleanedShape ==
    pc = "getOutput" =>
        \A i \in 1..Len(cleanedData) : \A j \in 1..Len(cleanedData[i]) :
            LET e == cleanedData[i][j]
            IN  /\ isinstance_str(e.k) => \A n \in 1..Len(e.k.s) : e.k.s[n] \in WordLower
                /\ ~isinstance_str(e.k) => e.k = None /\ e.v.t = "list"
                /\ e.v # None
                /\ e.v # Str(<<>>)

C1_Witness ==
    /\ pc = "getOutput"
    /\ data.recs = << <<[k |-> Str(<<"Eacute", " ">>), v |-> Str(<<" ">>)]>> >>
    /\ cleanedData = << <<[k |-> Str(<<"e", "_">>), v |-> Sentinel]>> >>

\* ---- C4
\* C4: cleanData applied to what cleanData returned returns it unchanged:
\* same records, same keys in the same order, same values.
C4_Idempotent ==
    pc = "getOutput" => cleanData(JsonArray(cleanedData)) = Return(cleanedData)

C4_Witness ==
    /\ pc = "getOutput"
    /\ Len(data.recs) = 2
    /\ Len(data.recs[1]) = 2
    /\ Len(cleanedData[1]) = 1
    /\ \E j \in 1..Len(data.recs[2]) : data.recs[2][j].v = None
    /\ \E j \in 1..Len(data.recs[1]) : data.recs[1][j].v.t \in {"num", "list"}

\* ---- C8
\* C8: in a record where several original keys normalize to the same key, the
\* cleaned record holds each normalized key once, with the cleaned value of
\* the last original field of that key, at the place of the first such field;
\* it has as many keys as there are distinct normalized keys; nothing is raised.
C8_Collision ==
    pc = "getOutput" =>
        /\ result = "running"
        /\ \A i \in 1..Len(data.recs) :
            LET item == data.recs[i]
                c == cleanedData[i]
            IN  Cardinality(NormKeys(item)) < Len(item) =>
                /\ Len(c) = Cardinality(NormKeys(item))
                /\ \A nk \in NormKeys(item) :
                    /\ Cardinality({p \in 1..Len(c) : c[p].k = nk}) = 1
                    /\ \A p \in 1..Len(c) : c[p].k = nk =>
                        /\ c[p].v = cleanValue(item[LastOf(item, nk)].v)
                        /\ p = Cardinality({m \in NormKeys(item) :
                                              FirstOf(item, m) <= FirstOf(item, nk)})

C8_Witness ==
    /\ pc = "getOutput"
    /\ \E i \in 1..Len(data.recs) :
        /\ Len(data.recs[i]) = 3
        /\ normalizeKey(data.recs[i][1].k) = normalizeKey(data.recs[i][3].k)
        /\ normalizeKey(data.recs[i][1].k) # normalizeKey(data.recs[i][2].k)
        /\ data.recs[i][1].v = Number
        /\ data.recs[i][3].v = Str(<<"X">>)
        /\ Len(cleanedData[i]) = 2
        /\ cleanedData[i][1].v = Str(<<"x">>)

\* ---- C10
OnlySpaceOrMarks(s) == \A n \in 1..Len(s) : isspace(s[n]) \/ category(s[n]) = "Mn"

\* C10: cleanData leaves its input as it was and returns as many records, in
\* the same order; a value that is neither text nor None is carried over
\* unchanged; None, and a text that is empty once accents are stripped and it
\* is lowercased and trimmed, become "n/a".
C10_Frame ==
    [][(Clean /\ pc' = "getOutput") =>
        /\ data' = data
        /\ Len(cleanedData') = Len(data.recs)
        /\ \A i \in 1..Len(data.recs) :
            LET item == data.recs[i]
            IN  /\ KeySet(cleanedData'[i]) = NormKeys(item)
                /\ \A j \in 1..Len(item) :
                    LET nk == normalizeKey(item[j].k)
                        val == item[j].v
                        out == Get(cleanedData'[i], nk)
                    IN  j = LastOf(item, nk) =>
                        /\ val.t \notin {"str", "null"} => out = val
                        /\ val = None => out = Sentinel
                        /\ (isinstance_str(val) /\ OnlySpaceOrMarks(val.s)) =>
                                out = Sentinel
    ]_vars

C10_Witness ==
    /\ pc = "getOutput"
    /\ Len(data.recs) = 2
    /\ KeySet(cleanedData[1]) # KeySet(cleanedData[2])
    /\ data.recs[1] = <<[k |-> Str(<<"A">>), v |-> NestedList]>>
    /\ cleanedData[1] = <<[k |-> Str(<<"a">>), v |-> NestedList]>>
    /\ \E j \in 1..Len(data.recs[2]) :
          data.recs[2][j].v = None /\ cleanedData[2][j].v = Sentinel

\* ---- C9
CsvRead == Class(inputPath) = ".csv" /\ data # NoDoc

\* C9 as stated: readData returns one record per row after the header, in row
\* order, each with exactly the header names as keys and text values.
C9_Original ==
    (CsvRead /\ Head(InputContent.rows) # <<>>) =>
        LET rows == InputContent.rows
            header == Head(rows)
        IN  /\ Len(data.recs) = Len(rows) - 1
            /\ \A i \in 1..Len(data.recs) :
                /\ KeySet(data.recs[i]) = {Str(header[j]) : j \in 1..Len(header)}
                /\ \A j \in 1..Len(data.recs[i]) : isinstance_str(data.recs[i][j].v)

\* the record csv.DictReader makes of a row: the header names, under each the
\* cell in the last column of that name or None when the row is too short,
\* and under None the list of the cells beyond the header
IsRecordOf(header, row, d) ==
    /\ KeySet(d) = {Str(header[j]) : j \in 1..Len(header)}
                   \cup (IF Len(row) > Len(header) THEN {None} ELSE {})
    /\ \A j \in 1..Len(header) :
        (\A h \in (j + 1)..Len(header) : header[h] # header[j]) =>
            Get(d, Str(header[j])) = IF j <= Len(row) THEN Str(row[j]) ELSE None
    /\ Len(row) > Len(header) =>
            Get(d, None) = List(SubSeq(row, Len(header) + 1, Len(row)))

\* C9 amended: readData returns one record per non-blank row after the
\* header, in row order; its keys are the header names, plus None when the row
\* has more cells than the header; its values are the row's cells as text,
\* None for a header name the row has no cell for, and the list of surplus
\* cells under None.
C9_Records ==
    CsvRead =>
        LET rows == InputContent.rows
            header == Head(rows)
            body == SelectSeq(Tail(rows), LAMBDA r : r # <<>>)
        IN  /\ Len(data.recs) = Len(body)
            /\ \A i \in 1..Len(body) : IsRecordOf(header, body[i], data.recs[i])

C9_Witness ==
    /\ CsvRead
    /\ InputContent.rows = << <<<<"A">>, <<>>>>, <<>>, <<<<"A">>>> >>
    /\ data.recs = << <<[k |-> Str(<<"A">>), v |-> Str(<<"A">>)],
                        [k |-> Str(<<>>), v |-> None]>> >>

\* ---- C7
WroteCsv ==
    /\ pc = "done"
    /\ calls = AllPipeline
    /\ Class(outputPath) = ".csv"

KeysDiffer == \E i \in 2..Len(outData) : KeySet(outData[i]) # KeySet(outData[1])

\* the CSV file that holds the header and the first n records of outData, a
\* record's value in the column of its key and the empty cell where it has none
HeaderAndRows(n) ==
    LET fieldnames == keys(outData[1])
    IN  CsvFile(<<[j \in 1..Len(fieldnames) |-> CsvCell(fieldnames[j])]>>
                \o [i \in 1..n |->
                       [j \in 1..Len(fieldnames) |->
                           IF fieldnames[j] \in KeySet(outData[i])
                           THEN CsvCell(Get(outData[i], fieldnames[j]))
                           ELSE <<>>]],
                FALSE)

\* C7 as stated: on records whose keys differ from the first record's,
\* writeData raises nothing, writes the header and one row per record, and
\* returns true.
C7_Original ==
    (WroteCsv /\ outData # <<>> /\ KeysDiffer) =>
        /\ result = "True"
        /\ fs.files[outputPath] = HeaderAndRows(Len(outData))

\* the records holding a key that the first record lacks
Surplus == {i \in 1..Len(outData) : ~(KeySet(outData[i]) \subseteq KeySet(outData[1]))}

\* C7 amended: when later records only lack keys of the first record,
\* writeData writes the header and one row per record, the missing columns
\* empty, and returns true; when a record has a key the first record lacks,
\* writeData raises ValueError, having written the header and the rows of
\* the records before the first such record.
C7_DifferingKeys ==
    (WroteCsv /\ outData # <<>> /\ KeysDiffer) =>
        IF Surplus = {}
        THEN /\ result = "True"
             /\ fs.files[outputPath] = HeaderAndRows(Len(outData))
        ELSE /\ result = "ValueError"
             /\ fs.files[outputPath] =
                    HeaderAndRows((CHOOSE i \in Surplus : \A h \in Surplus : i <= h) - 1)

C7_Witness ==
    /\ WroteCsv
    /\ Len(outData) = 2
    /\ keys(outData[1]) = <<Str(<<"a">>), Str(<<"_">>)>>
    /\ keys(outData[2]) = <<Str(<<"_">>)>>
    /\ result = "True"
    /\ fs.files[outputPath].rows[3] = <<<<>>, <<"x">>>>

\* ---- C5
\* C5: CSVConverter.writeData returns False exactly when its dataset is
\* empty; it then raises nothing and leaves the file system as it was, and
\* convert returns that False.
C5_EmptyCsv ==
    WroteCsv =>
        /\ (result = "False") <=> (outData = <<>>)
        /\ outData = <<>> => fs = before

C5_Witness ==
    /\ WroteCsv
    /\ outData = <<>>
    /\ result = "False"
    /\ fs.files[outputPath] = OldFile

\* ---- C6
\* C6: when validateFormat returns False on the input, convert fails with
\* the invalid-format error, having called none of readData, cleanData and
\* writeData and leaving the file system as it was; and the destination is
\* written only after validateFormat, readData and cleanData went through.
C6_InvalidAborts ==
    /\ (Called("validateFormat") /\ InvalidInput) =>
            /\ pc = "done"
            /\ result = "InvalidFormat"
            /\ calls = <<"validateFormat">>
            /\ fs = before
    /\ result = "InvalidFormat" => (InvalidInput /\ calls = <<"validateFormat">>)
    /\ (fs # before \/ Called("writeData")) => calls = AllPipeline

C6_Witness ==
    /\ pc = "done"
    /\ result = "InvalidFormat"
    /\ inputPath = "in.csv"
    /\ InputContent = CsvFile(<<>>, TRUE)
    /\ fs.files[outputPath] = OldFile

\* ---- C3
\* C3 as stated: with an existing input and an output extension that is
\* neither .csv nor .json, convert fails with the unsupported-format error
\* before validateFormat or readData is called.
C3_Original ==
    (InputExists /\ ~Supported(outputPath)) =>
        /\ calls = <<>>
        /\ pc = "done" => result = "UnsupportedFormat"

\* C3 amended: with an existing input and an unsupported output extension,
\* convert writes nothing; it fails with the unsupported-format error before
\* any converter method is called when the input extension is unsupported
\* too, and otherwise after validateFormat, readData and cleanData, provided
\* validateFormat returned True and readData and cleanData raised nothing.
C3_OutputExtension ==
    (pc = "done" /\ InputExists /\ ~Supported(outputPath)) =>
        /\ fs = before
        /\ ~Supported(inputPath) => (result = "UnsupportedFormat" /\ calls = <<>>)
        /\ (Supported(inputPath) /\ result = "UnsupportedFormat") =>
                calls = <<"validateFormat", "readData", "cleanData">>
        /\ (Supported(inputPath) /\ ~InvalidInput /\ ~UnreadableInput
                /\ ~UncleanableInput) => result = "UnsupportedFormat"

C3_Witness ==
    /\ pc = "done"
    /\ inputPath = "in.csv"
    /\ outputPath = "out.xml"
    /\ result = "UnsupportedFormat"
    /\ calls = <<"validateFormat", "readData", "cleanData">>
    /\ cleanedData # <<>>

\* ---- C2
\* C2: when the input exists, passes validateFormat and yields a non-empty
\* list of records, and the output extension is .csv or .json, convert
\* creates the missing directories, writes the destination and returns True,
\* whether or not the destination existed; and only a missing input raises
\* the not-found error.
C2_Claim ==
    /\ (pc = "done" /\ InputExists /\ Supported(inputPath) /\ ~InvalidInput
            /\ data.shape = "array" /\ data.recs # <<>> /\ Supported(outputPath)) =>
            /\ result = "True"
            /\ exists(fs, outputPath)
            /\ dirname(outputPath) \in fs.dirs
    /\ result = "FileNotFoundError" => ~InputExists

====
